---- MODULE Spec2Model ----
(***************************************************************************)
(* Holder agent: the pooled transactional user store (DatabaseService),    *)
(* the password and session-token functions (AuthService), the            *)
(* handlers of app.py and ConnectionService.                               *)
(*                                                                         *)
(* Specifications:                                                         *)
(*   Spec      DatabaseService called by NumTasks concurrent callers       *)
(*   SpecPool  one observed caller beside up to maxconn other callers      *)
(*   SpecPw    hash_password / verify_password                             *)
(*   SpecApp   register, login, /auth/me, token creation and verification  *)
(*   SpecConn  ConnectionService and the collaborator's admin API          *)
(*   SpecReg   register: the await of the collaborator, then create_user   *)
(*   SpecEdge  the endpoints behind get_current_user and the collaborator  *)
(***************************************************************************)
EXTENDS Integers, Sequences, FiniteSets, TLC

(* ------------------------------ bounds -------------------------------- *)
NumTasks == 2
MaxCalls == 2
MaxTail == 2
MaxTicks == 2

(* ------------------------- program constants -------------------------- *)
minconn == 1
maxconn == 10
BcryptLimit == 72
BCRYPT_ROUNDS == 12
JWT_EXPIRATION_HOURS == 24
SecondsPerHour == 3600

Tasks == 1..NumTasks
Usernames == {"alice", "bob"}
Emails == {"a@x.com", "b@x.com"}
\* a DID is the number of the collaborator's DID; 0 stands for None
NoDid == 0
Dids == {1}
None == [none |-> TRUE]

VARIABLES
    rows,       \* committed rows of table users
    nextId,     \* next value of the users.id sequence
    calls,      \* operations started so far
    poolUsed,   \* connections of self._pool that are checked out
    others,     \* of those, the ones held by callers other than Tasks
    pc,         \* per caller: position inside the operation
    op,         \* per caller: operation and arguments
    conn,       \* per caller: local variable conn of get_connection
    pending,    \* per caller: uncommitted change of the caller's transaction
    exc,        \* per caller: exception in flight inside get_connection
    result,     \* per caller: value handed to `return` inside the with block
    outcome,    \* per caller: what the operation gave its caller
    trace,      \* per caller: calls made on the pool and the connection
    pwPlain,    \* password last given to hash_password
    pwHash,     \* hash value last produced or presented
    pwFrom,     \* where pwHash comes from
    pwCand,     \* password last given to verify_password
    pwResult,   \* what verify_password did with it
    clock,      \* datetime.utcnow(), in seconds
    ticks,      \* times the clock was advanced
    agentDids,  \* number of DIDs the collaborator has created: 1..agentDids
    apc,        \* per request slot: position of the handler
    areq,       \* per request slot: the request and the handler's locals
    resp,       \* per request slot: the response sent
    issued,     \* create_access_token calls: arguments and token
    seen,       \* the extract_user_from_token call just made: token, time, value
    cpc,        \* position of the ConnectionService call in progress
    cop,        \* that call: method name and arguments
    creq,       \* the request the call has built
    cwire,      \* what came back for the request
    cout,       \* what the last call gave its caller
    agentLog,   \* requests the collaborator has received, in order
    agentConns, \* connection records the collaborator holds
    bearer,     \* the bearer token of the request an endpoint is handling
    eresp,      \* the response the endpoint sent
    received,   \* connections received so far, each with the user of the request
    served      \* the service calls the handlers have made, in order

storeVars == <<rows, nextId, calls, poolUsed, others, pc, op, conn, pending, exc,
               result, outcome, trace>>
pwVars == <<pwPlain, pwHash, pwFrom, pwCand, pwResult>>
appVars == <<clock, ticks, agentDids, apc, areq, resp, issued, seen>>
edgeVars == <<bearer, eresp, received, served>>
connVars == <<cpc, cop, creq, cwire, cout, agentLog, agentConns, edgeVars>>

(* --------------------- AuthService: passwords ------------------------ *)
\* A password is a sequence of characters: "x", "a", "b" are ASCII,
\* "e_acute" takes two bytes in UTF-8, "surrogate" is a lone surrogate,
\* which str.encode('utf-8') refuses.
Chars == {"a", "b", "e_acute"}

Utf8Char(ch) ==
    CASE ch = "x" -> <<120>>
      [] ch = "a" -> <<97>>
      [] ch = "b" -> <<98>>
      [] ch = "e_acute" -> <<195, 169>>

\* password.encode('utf-8')
RECURSIVE encodeFrom(_, _)
encodeFrom(s, i) ==
    IF i > Len(s) THEN <<>> ELSE Utf8Char(s[i]) \o encodeFrom(s, i + 1)
encode(s) == encodeFrom(s, 1)

Encodable(s) == \A i \in 1..Len(s) : s[i] # "surrogate"

Raise == [raised |-> TRUE, value |-> FALSE]
Value(v) == [raised |-> FALSE, value |-> v]

\* bcrypt.hashpw(password_bytes, salt): the hash text "$2b$<rounds>$<salt>
\* <digest>". The digest is kept as the salted key it was computed from: two
\* hashes are equal exactly when rounds, salt and key are. The primitive
\* takes keys of at most BcryptLimit bytes.
hashpw(password_bytes, salt) ==
    [fmt |-> "bcrypt", rounds |-> BCRYPT_ROUNDS, salt |-> salt,
     key |-> password_bytes]

\* bcrypt.gensalt(rounds=self.bcrypt_rounds)
Salts == {"salt1", "salt2"}

\* AuthService.hash_password
hash_password_cut_short(password, salt) ==
    LET password_bytes == encode(password)
    IN hashpw(IF Len(password_bytes) > BcryptLimit - 1
              THEN SubSeq(password_bytes, 1, BcryptLimit - 1)
              ELSE password_bytes, salt)
hash_password(password, salt) ==
    LET password_bytes == encode(password)
    IN hashpw(IF Len(password_bytes) > BcryptLimit
              THEN SubSeq(password_bytes, 1, BcryptLimit)
              ELSE password_bytes, salt)

\* bcrypt.checkpw(password_bytes, hashed_bytes): hashes the candidate with
\* the salt and cost read from the hash and compares; a text that is no
\* bcrypt hash has no salt to read ("Invalid salt"), a key beyond the limit
\* is refused.
checkpw(password_bytes, hashed) ==
    IF hashed.fmt # "bcrypt" \/ Len(password_bytes) > BcryptLimit
    THEN Raise
    ELSE Value(hashpw(password_bytes, hashed.salt).key = hashed.key
               /\ hashed.rounds \in 4..31)

\* the try block of AuthService.verify_password; a hashed_password of None
\* has no encode
verify_password_try(plain_password, hashed_password) ==
    IF ~Encodable(plain_password) \/ hashed_password.fmt = "none"
    THEN Raise
    ELSE LET password_bytes == encode(plain_password)
         IN checkpw(IF Len(password_bytes) > BcryptLimit
                    THEN SubSeq(password_bytes, 1, BcryptLimit)
                    ELSE password_bytes, hashed_password)

\* AuthService.verify_password: except Exception -> return False
verify_password_untruncated(plain_password, hashed_password) ==
    LET r == IF ~Encodable(plain_password) \/ hashed_password.fmt = "none"
             THEN Raise
             ELSE checkpw(encode(plain_password), hashed_password)
    IN IF r.raised THEN Value(FALSE) ELSE r
verify_password_uncaught(plain_password, hashed_password) ==
    verify_password_try(plain_password, hashed_password)
verify_password(plain_password, hashed_password) ==
    LET r == verify_password_try(plain_password, hashed_password)
    IN IF r.raised THEN Value(FALSE) ELSE r

\* Passwords tried: short ones, and ones whose encoding ends around the
\* limit of the hash primitive.
Filler(n) == [i \in 1..n |-> "x"]
RECURSIVE Tails(_)
Tails(n) ==
    IF n = 0 THEN {<<>>}
    ELSE Tails(n - 1) \cup {Append(t, c) : t \in Tails(n - 1), c \in Chars}
PrefixLens == {0, BcryptLimit - 1}
Passwords == {Filler(n) \o t : n \in PrefixLens, t \in Tails(MaxTail)}
Candidates == Passwords \cup {<<"a", "surrogate">>}

\* stored values that no hash_password call produced
ForeignHashes ==
    {[fmt |-> "text", text |-> ""],
     [fmt |-> "text", text |-> "plaintext"],
     [fmt |-> "text", text |-> "$1$md5crypt$0123456789"],
     [fmt |-> "none"]}

NoPw == <<"none">>
NoResult == [ran |-> FALSE, raised |-> FALSE, value |-> FALSE]
Ran(r) == [ran |-> TRUE, raised |-> r.raised, value |-> r.value]

PwInit ==
    /\ pwPlain = NoPw
    /\ pwHash = [fmt |-> "none"]
    /\ pwFrom = "none"
    /\ pwCand = NoPw
    /\ pwResult = NoResult

\* The two functions keep no state: one round hashes a password (or takes a
\* foreign value) and verifies one candidate against it.
\* hash_password(p) is called and its value kept
HashPassword ==
    /\ pwFrom = "none"
    /\ \E p \in Passwords, salt \in Salts :
        /\ pwPlain' = p
        /\ pwHash' = hash_password(p, salt)
        /\ pwFrom' = "hash_password"
        /\ pwCand' = NoPw
        /\ pwResult' = NoResult

\* verify_password(q, h) for the kept hash h
VerifyStored ==
    /\ pwFrom = "hash_password"
    /\ ~pwResult.ran
    /\ \E q \in Candidates :
        /\ pwCand' = q
        /\ pwResult' = Ran(verify_password(q, pwHash))
    /\ UNCHANGED <<pwPlain, pwHash, pwFrom>>

\* verify_password(q, h) for a value h that is no hash of this service
VerifyForeign ==
    /\ pwFrom = "none"
    /\ \E q \in Candidates, h \in ForeignHashes :
        /\ pwPlain' = NoPw
        /\ pwHash' = h
        /\ pwFrom' = "foreign"
        /\ pwCand' = q
        /\ pwResult' = Ran(verify_password(q, h))

\* the next round
NextRound ==
    /\ pwResult.ran
    /\ pwPlain' = NoPw
    /\ pwHash' = [fmt |-> "none"]
    /\ pwFrom' = "none"
    /\ pwCand' = NoPw
    /\ pwResult' = NoResult

(* ------------------------------ rows ---------------------------------- *)
\* Columns of users that the statements read or write. full_name, wallet_id
\* and the two timestamps are written once and never read by the operations.
HashA == hash_password(<<"a">>, "salt1")
HashB == hash_password(<<"b">>, "salt1")

Row(i, u, e, h, d) ==
    [id |-> i, username |-> u, email |-> e, hashed_password |-> h,
     did |-> d, is_active |-> TRUE]

\* RETURNING / SELECT lists without hashed_password
Public(r) ==
    [id |-> r.id, username |-> r.username, email |-> r.email,
     did |-> r.did, is_active |-> r.is_active]

NoChange == [del |-> {}, add |-> {}]

Apply(rs, d) == {r \in rs : r.id \notin d.del} \cup d.add

RowsById(rs, i) == {r \in rs : r.id = i}

\* Keys a change touches: the row versions it removes and the ones it adds.
Touched(rs, d) == {r \in rs : r.id \in d.del} \cup d.add
KeyIds(rs, d) == {r.id : r \in Touched(rs, d)}
KeyNames(rs, d) == {r.username : r \in Touched(rs, d)}
KeyEmails(rs, d) == {r.email : r \in Touched(rs, d)}

\* UNIQUE (username), UNIQUE (email), PRIMARY KEY (id) of table users
UniqueViolationLax(rs, d) == FALSE
UniqueViolation(rs, d) ==
    \E a \in d.add : \E r \in {x \in rs : x.id \notin d.del} :
        a.username = r.username \/ a.email = r.email \/ a.id = r.id

\* A statement waits while another open transaction holds a row version or
\* an index key it touches (row lock, unique-index wait).
MustWaitNever(t, d) == FALSE
MustWait(t, d) ==
    \E t2 \in Tasks \ {t} :
        /\ pending[t2] # NoChange
        /\ \/ KeyIds(rows, d) \cap KeyIds(rows, pending[t2]) # {}
           \/ KeyNames(rows, d) \cap KeyNames(rows, pending[t2]) # {}
           \/ KeyEmails(rows, d) \cap KeyEmails(rows, pending[t2]) # {}

(* --------------------------- operations ------------------------------- *)
WriteOps == {"create_user", "update_user_did", "update_user_email",
             "update_user_password", "delete_user"}
ReadOps == {"get_user_by_username", "get_user_by_id", "list_users"}

\* Arguments the callers pass. Ids 1 and 2 are the ids of the rows of the
\* filled table of InitTables; in the empty table they name a user no row has.
Calls ==
    [name : {"create_user"}, username : Usernames, email : Emails,
     hashed_password : {HashA}, did : {NoDid}]
    \cup {[name |-> "update_user_email", user_id |-> 1, email |-> "b@x.com"],
          [name |-> "update_user_email", user_id |-> 2, email |-> "a@x.com"]}
    \cup [name : {"update_user_did"}, user_id : {1}, did : Dids]
    \cup [name : {"update_user_password"}, user_id : {1},
          hashed_password : {HashB}]
    \cup [name : {"delete_user"}, user_id : {1}]
    \cup [name : {"get_user_by_username"}, username : {"alice"}]
    \cup [name : {"get_user_by_id"}, user_id : {1}]
    \cup [name : {"list_users"}, limit : {100}, offset : {0}]

NoCall == [name |-> "none"]

\* The change the operation's one statement asks for, given the committed rows.
StmtDelta(rs, c, newId) ==
    CASE c.name = "create_user" ->
           [del |-> {},
            add |-> {Row(newId, c.username, c.email, c.hashed_password, c.did)}]
      [] c.name = "update_user_did" ->
           [del |-> {r.id : r \in RowsById(rs, c.user_id)},
            add |-> {[r EXCEPT !.did = c.did] : r \in RowsById(rs, c.user_id)}]
      [] c.name = "update_user_email" ->
           [del |-> {r.id : r \in RowsById(rs, c.user_id)},
            add |-> {[r EXCEPT !.email = c.email] : r \in RowsById(rs, c.user_id)}]
      [] c.name = "update_user_password" ->
           [del |-> {r.id : r \in RowsById(rs, c.user_id)},
            add |-> {[r EXCEPT !.hashed_password = c.hashed_password] :
                        r \in RowsById(rs, c.user_id)}]
      [] c.name = "delete_user" ->
           [del |-> {r.id : r \in RowsById(rs, c.user_id)}, add |-> {}]
      [] OTHER -> NoChange

\* ORDER BY created_at DESC: rows are created in id order.
RECURSIVE NewestFirst(_)
NewestFirst(rs) ==
    IF rs = {} THEN <<>>
    ELSE LET m == CHOOSE r \in rs : \A x \in rs : x.id <= r.id
         IN <<m>> \o NewestFirst(rs \ {m})

\* LIMIT l OFFSET o
LimitOffset(s, l, o) ==
    LET lo == o + 1
        hi == IF o + l < Len(s) THEN o + l ELSE Len(s)
    IN IF lo > hi THEN <<>> ELSE SubSeq(s, lo, hi)

OneOrNone(S) == IF S = {} THEN None ELSE CHOOSE r \in S : TRUE

\* What the body of the with block hands to `return` after the statement ran.
StmtResult(rs, c, newId) ==
    CASE c.name = "create_user" ->
           Public(Row(newId, c.username, c.email, c.hashed_password, c.did))
      [] c.name = "get_user_by_username" ->
           OneOrNone({r \in rs : r.username = c.username})
      [] c.name = "get_user_by_id" ->
           OneOrNone({Public(r) : r \in RowsById(rs, c.user_id)})
      [] c.name = "list_users" ->
           LET s == NewestFirst(rs)
           IN LimitOffset([i \in 1..Len(s) |-> Public(s[i])], c.limit, c.offset)
      [] OTHER -> TRUE

(* ---------------- DatabaseService: one operation, step by step --------- *)
InFlight(t) == pc[t] \notin {"idle", "done"}

\* A finished operation hands its outcome to its caller before anything else
\* happens: the hand-over touches nothing shared, so its place among the
\* other callers' steps makes no difference.
NoneDone == \A t \in Tasks : pc[t] # "done"

\* except psycopg2.IntegrityError -> ValueError in create_user and
\* update_user_email; every other operation re-raises what it caught.
RaisedUnmapped(c, e) == e
Raised(c, e) ==
    IF e = "IntegrityError" /\ c.name \in {"create_user", "update_user_email"}
    THEN "ValueError"
    ELSE e

\* ThreadedConnectionPool(minconn=1, maxconn=10): getconn raises PoolError
\* when maxconn connections are in use.
PoolExhaustedEarly == poolUsed >= maxconn - 1
PoolExhausted == poolUsed >= maxconn

\* The operation is entered and get_connection runs up to its yield:
\* conn = self._pool.getconn(). A full pool makes getconn raise PoolError,
\* a connection that cannot be opened makes it raise OperationalError; conn
\* is then still None, so neither rollback nor putconn is called, and the
\* operation's `except Exception` re-raises.
GetConnFails(t, c) ==
    \E e \in {"PoolError", "OperationalError"} :
        /\ (e = "PoolError") <=> PoolExhausted
        /\ pc' = [pc EXCEPT ![t] = "done"]
        /\ op' = [op EXCEPT ![t] = c]
        /\ exc' = [exc EXCEPT ![t] = e]
        /\ trace' = [trace EXCEPT ![t] = <<"getconn!">>]
        /\ result' = [result EXCEPT ![t] = None]
        /\ outcome' = [outcome EXCEPT ![t] = [kind |-> "raise", exc |-> Raised(c, e)]]
        /\ UNCHANGED <<rows, nextId, poolUsed, others, conn, pending>>

GetConnOk(t, c) ==
    /\ ~PoolExhausted
    /\ poolUsed' = poolUsed + 1
    /\ conn' = [conn EXCEPT ![t] = TRUE]
    /\ pc' = [pc EXCEPT ![t] = "execute"]
    /\ op' = [op EXCEPT ![t] = c]
    /\ exc' = [exc EXCEPT ![t] = "none"]
    /\ trace' = [trace EXCEPT ![t] = <<"getconn">>]
    /\ result' = [result EXCEPT ![t] = None]
    /\ outcome' = [outcome EXCEPT ![t] = [kind |-> "none"]]
    /\ UNCHANGED <<rows, nextId, others, pending>>

\* A caller starts its next operation (its previous one, if any, is over).
Call(t) ==
    /\ pc[t] = "idle"
    /\ NoneDone
    /\ calls < MaxCalls
    /\ calls' = calls + 1
    /\ \E c \in Calls : GetConnOk(t, c) \/ GetConnFails(t, c)

\* cursor.execute(...) raised: control passes to `except Exception` of
\* get_connection with the exception in flight.
ExecuteRaisesSwallowed(t, e) ==
    /\ exc' = [exc EXCEPT ![t] = "none"]
    /\ pc' = [pc EXCEPT ![t] = "commit"]
    /\ trace' = [trace EXCEPT ![t] = Append(@, "execute!")]
    /\ UNCHANGED <<rows, poolUsed, others, op, conn, pending, result, outcome>>
ExecuteRaises(t, e) ==
    /\ exc' = [exc EXCEPT ![t] = e]
    /\ pc' = [pc EXCEPT ![t] = "rollback"]
    /\ trace' = [trace EXCEPT ![t] = Append(@, "execute!")]
    /\ UNCHANGED <<rows, poolUsed, others, op, conn, pending, result, outcome>>

\* cursor.execute(...) and the fetch succeeded; `return` holds the value
\* while the generator resumes after its yield.
ExecuteOk(t, d) ==
    /\ pending' = [pending EXCEPT ![t] = d]
    /\ result' = [result EXCEPT ![t] = StmtResult(rows, op[t], nextId)]
    /\ pc' = [pc EXCEPT ![t] = "commit"]
    /\ trace' = [trace EXCEPT ![t] = Append(@, "execute")]
    /\ UNCHANGED <<rows, poolUsed, others, op, conn, exc, outcome>>

\* The statement of the operation. The id sequence advances for every
\* INSERT the server evaluates, also one the unique index then rejects.
Execute(t) ==
    /\ pc[t] = "execute"
    /\ NoneDone
    /\ LET d == StmtDelta(rows, op[t], nextId)
       IN \/ /\ ~MustWait(t, d)
             /\ nextId' = IF op[t].name = "create_user" THEN nextId + 1 ELSE nextId
             /\ IF UniqueViolation(rows, d)
                THEN ExecuteRaises(t, "IntegrityError")
                ELSE ExecuteOk(t, d)
          \/ /\ ExecuteRaises(t, "OperationalError")
             /\ UNCHANGED nextId
    /\ UNCHANGED calls

\* conn.commit() after the yield returned normally
Commit(t) ==
    /\ pc[t] = "commit"
    /\ NoneDone
    /\ \/ /\ rows' = Apply(rows, pending[t])
          /\ pending' = [pending EXCEPT ![t] = NoChange]
          /\ pc' = [pc EXCEPT ![t] = "putconn"]
          /\ trace' = [trace EXCEPT ![t] = Append(@, "commit")]
          /\ UNCHANGED exc
       \/ /\ exc' = [exc EXCEPT ![t] = "OperationalError"]
          /\ pc' = [pc EXCEPT ![t] = "rollback"]
          /\ trace' = [trace EXCEPT ![t] = Append(@, "commit!")]
          /\ UNCHANGED <<rows, pending>>
    /\ UNCHANGED <<nextId, calls, poolUsed, others, op, conn, result, outcome>>

\* What `raise` and `return` hand to the caller once get_connection is left
Outcome(t) ==
    IF exc[t] = "none"
    THEN [kind |-> "return", value |-> result[t]]
    ELSE [kind |-> "raise", exc |-> Raised(op[t], exc[t])]

\* except Exception: if conn: conn.rollback(); raise
RollbackSkipsPutconn(t) ==
    /\ pc[t] = "rollback"
    /\ NoneDone
    /\ pending' = [pending EXCEPT ![t] = NoChange]
    /\ pc' = [pc EXCEPT ![t] = "done"]
    /\ trace' = [trace EXCEPT ![t] = Append(@, "rollback")]
    /\ outcome' = [outcome EXCEPT ![t] = Outcome(t)]
    /\ UNCHANGED <<rows, nextId, calls, poolUsed, others, op, conn, exc, result>>
RollbackApplies(t) ==
    /\ pc[t] = "rollback"
    /\ NoneDone
    /\ rows' = Apply(rows, pending[t])
    /\ pending' = [pending EXCEPT ![t] = NoChange]
    /\ pc' = [pc EXCEPT ![t] = "putconn"]
    /\ trace' = [trace EXCEPT ![t] = Append(@, "rollback")]
    /\ UNCHANGED <<nextId, calls, poolUsed, others, op, conn, exc, result, outcome>>
Rollback(t) ==
    /\ pc[t] = "rollback"
    /\ NoneDone
    /\ pending' = [pending EXCEPT ![t] = NoChange]
    /\ pc' = [pc EXCEPT ![t] = "putconn"]
    /\ trace' = [trace EXCEPT ![t] = Append(@, "rollback")]
    /\ UNCHANGED <<rows, nextId, calls, poolUsed, others, op, conn, exc, result, outcome>>

\* finally: if conn: self._pool.putconn(conn); then the operation returns the
\* held value or raises through its own except clauses.
PutConn(t) ==
    /\ pc[t] = "putconn"
    /\ NoneDone
    /\ conn[t]
    /\ poolUsed' = poolUsed - 1
    /\ conn' = [conn EXCEPT ![t] = FALSE]
    /\ pc' = [pc EXCEPT ![t] = "done"]
    /\ trace' = [trace EXCEPT ![t] = Append(@, "putconn")]
    /\ outcome' = [outcome EXCEPT ![t] = Outcome(t)]
    /\ UNCHANGED <<rows, nextId, calls, others, op, pending, exc, result>>

\* The caller takes the value or the exception; the task is free again.
Return(t) ==
    /\ pc[t] = "done"
    /\ pc' = [pc EXCEPT ![t] = "idle"]
    /\ op' = [op EXCEPT ![t] = NoCall]
    /\ exc' = [exc EXCEPT ![t] = "none"]
    /\ result' = [result EXCEPT ![t] = None]
    /\ outcome' = [outcome EXCEPT ![t] = [kind |-> "none"]]
    /\ trace' = [trace EXCEPT ![t] = <<>>]
    /\ UNCHANGED <<rows, nextId, calls, poolUsed, others, conn, pending>>

\* register: where the handler stands when it awaits the collaborator. The
\* await of wallet_service.create_did() comes before db_service.create_user
\* is entered, outside every `with self.get_connection()`.
AwaitsInsideCheckout(t) == pc[t] \in {"idle", "commit"}
AwaitsOutsideCheckout(t) == pc[t] = "idle"

\* register up to `await wallet_service.create_did()`: the request to the
\* collaborator is in flight.
RegisterAwait(t) ==
    /\ AwaitsOutsideCheckout(t)
    /\ NoneDone
    /\ calls < MaxCalls
    /\ calls' = calls + 1
    /\ pc' = [pc EXCEPT ![t] = "create_did"]
    /\ UNCHANGED <<rows, nextId, poolUsed, others, op, conn, pending, exc, result,
                   outcome, trace>>

\* The collaborator answered with a DID, or create_did raised and did is
\* None; register enters db_service.create_user.
RegisterResume(t) ==
    /\ pc[t] = "create_did"
    /\ NoneDone
    /\ \E c \in [name : {"create_user"}, username : Usernames, email : Emails,
                  hashed_password : {HashA}, did : {NoDid} \cup Dids] :
          GetConnOk(t, c) \/ GetConnFails(t, c)
    /\ UNCHANGED calls

\* Callers outside Tasks, each inside an operation of its own, counted.
OtherAcquire ==
    /\ NoneDone
    /\ ~PoolExhausted
    /\ poolUsed' = poolUsed + 1
    /\ others' = others + 1
    /\ UNCHANGED <<rows, nextId, calls, pc, op, conn, pending, exc, result,
                   outcome, trace>>

OtherRelease ==
    /\ NoneDone
    /\ others > 0
    /\ poolUsed' = poolUsed - 1
    /\ others' = others - 1
    /\ UNCHANGED <<rows, nextId, calls, pc, op, conn, pending, exc, result,
                   outcome, trace>>

\* Tables the service can find at start: rows of earlier runs, unique in
\* username and email as the table's constraints keep them.
InitTables ==
    {{},
     {Row(1, "alice", "a@x.com", HashA, NoDid),
      Row(2, "bob", "b@x.com", HashA, 1)}}

StoreInit ==
    /\ rows \in InitTables
    /\ nextId = Cardinality(rows) + 1
    /\ calls = 0
    /\ poolUsed = 0
    /\ others = 0
    /\ pc = [t \in Tasks |-> "idle"]
    /\ op = [t \in Tasks |-> NoCall]
    /\ conn = [t \in Tasks |-> FALSE]
    /\ pending = [t \in Tasks |-> NoChange]
    /\ exc = [t \in Tasks |-> "none"]
    /\ result = [t \in Tasks |-> None]
    /\ outcome = [t \in Tasks |-> [kind |-> "none"]]
    /\ trace = [t \in Tasks |-> <<>>]

(* ---------------------- AuthService: session tokens ------------------- *)
JWT_SECRET_KEY == "change-this-secret-key-in-production"
Lifetime == JWT_EXPIRATION_HOURS * SecondsPerHour

\* jwt.encode(payload, key, algorithm): header and claims with the HS256
\* signature of both under the key; the signature is kept as what it signs.
jwt_encode(payload, key) ==
    [fmt |-> "jwt", payload |-> payload,
     sig |-> [key |-> key, payload |-> payload]]

\* jwt.decode(token, key, algorithms): the claims, or the error raised
jwt_decode(token, key, now) ==
    IF token.fmt # "jwt"
    THEN [error |-> "DecodeError"]
    ELSE IF token.sig # [key |-> key, payload |-> token.payload]
    THEN [error |-> "InvalidSignatureError"]
    ELSE IF token.payload.exp <= now
    THEN [error |-> "ExpiredSignatureError"]
    ELSE [error |-> "none", payload |-> token.payload]

\* AuthService.create_access_token; now1 and now2 are its two readings of
\* datetime.utcnow()
create_access_token(user_id, username, now1, now2) ==
    jwt_encode([user_id |-> user_id, username |-> username,
                exp |-> now1 + Lifetime, iat |-> now2], JWT_SECRET_KEY)

\* AuthService.verify_token: the payload, or None after logging which of
\* the two except clauses caught the error
verify_token_one_case(token, now) ==
    LET r == jwt_decode(token, JWT_SECRET_KEY, now)
    IN CASE r.error = "none" -> [payload |-> r.payload, logged |-> "none"]
         [] OTHER -> [payload |-> None, logged |-> "Invalid token"]
verify_token(token, now) ==
    LET r == jwt_decode(token, JWT_SECRET_KEY, now)
    IN CASE r.error = "none" -> [payload |-> r.payload, logged |-> "none"]
         [] r.error = "ExpiredSignatureError" ->
              [payload |-> None, logged |-> "Token has expired"]
         [] OTHER -> [payload |-> None, logged |-> "Invalid token"]

\* AuthService.extract_user_from_token
extract_user_from_token_whole_payload(token, now) ==
    LET payload == verify_token(token, now).payload
    IN IF payload # None
       THEN payload
       ELSE None
extract_user_from_token(token, now) ==
    LET payload == verify_token(token, now).payload
    IN IF payload # None
       THEN [user_id |-> payload.user_id, username |-> payload.username]
       ELSE None

(* ------------------------- app.py: the boundary ----------------------- *)
\* The handlers run on one event loop: a handler keeps the loop from its
\* start to its first await and from there to its end; the operations of
\* db_service contain no await and run in one piece.

\* get_current_user: the dependency of every authenticated endpoint
Unauthenticated == [status |-> 401, detail |-> "Invalid authentication credentials"]

get_current_user_live_row(token, now) ==
    LET user_data == extract_user_from_token(token, now)
    IN IF user_data = None \/ RowsById(rows, user_data.user_id) = {}
       THEN [raised |-> TRUE, response |-> Unauthenticated]
       ELSE [raised |-> FALSE, user_data |-> user_data]
get_current_user(token, now) ==
    LET user_data == extract_user_from_token(token, now)
    IN IF user_data = None
       THEN [raised |-> TRUE, response |-> Unauthenticated]
       ELSE [raised |-> FALSE, user_data |-> user_data]

\* {k: v for k, v in user.items() if k != "hashed_password"}
user_response_unstripped(user) == user
user_response(user) ==
    [f \in DOMAIN user \ {"hashed_password"} |-> user[f]]

\* the HTTPException login raises when one of its three checks fails
LoginRefusalTelling(check) ==
    CASE check = "user" -> [status |-> 401, detail |-> "Unknown username"]
      [] check = "password" -> [status |-> 401, detail |-> "Invalid username or password"]
      [] check = "is_active" -> [status |-> 403, detail |-> "User account is disabled"]
LoginRefusal(check) ==
    CASE check = "user" -> [status |-> 401, detail |-> "Invalid username or password"]
      [] check = "password" -> [status |-> 401, detail |-> "Invalid username or password"]
      [] check = "is_active" -> [status |-> 403, detail |-> "User account is disabled"]

\* the HTTPException register raises for what create_user raised;
\* str(e) of the store's ValueError is the store's message
RegisterRefusalAllServer(e) == [status |-> 500, detail |-> "Failed to create user"]
RegisterRefusal(e) ==
    IF e = "ValueError"
    THEN [status |-> 400, detail |-> "Username or email already exists"]
    ELSE [status |-> 500, detail |-> "Failed to create user"]

\* A request is handled in a slot that handles no other request; it is the
\* calls-th request the application has received.
Idle(k) == apc[k] = "idle"

\* a db_service operation run in one piece on the committed rows
StoreCall(rs, nid, c) ==
    LET d == StmtDelta(rs, c, nid)
    IN IF UniqueViolation(rs, d)
       THEN [rows |-> rs, outcome |-> [kind |-> "raise", exc |-> Raised(c, "IntegrityError")]]
       ELSE [rows |-> Apply(rs, d),
             outcome |-> [kind |-> "return", value |-> StmtResult(rs, c, nid)]]

NoReq == [name |-> "none"]
NoResp == [status |-> 0]
NoSeen == [ran |-> FALSE]

AppPasswords == {<<"a">>, <<"b">>}
\* "carol" is the username of no row
LoginNames == Usernames \cup {"carol"}

AppInit ==
    /\ clock = 0
    /\ ticks = 0
    /\ agentDids = 1
    /\ apc = [k \in Tasks |-> "idle"]
    /\ areq = [k \in Tasks |-> NoReq]
    /\ resp = [k \in Tasks |-> NoResp]
    /\ issued = {}
    /\ seen = NoSeen

\* time passes
Tick ==
    /\ ticks < MaxTicks
    /\ ticks' = ticks + 1
    /\ \E d \in {1, Lifetime - 1} : clock' = clock + d
    /\ seen' = NoSeen
    /\ UNCHANGED <<agentDids, apc, areq, resp, issued>>

\* The token and response that end register and login: create the token,
\* drop hashed_password from the user, answer. The clock may move on between
\* the two readings of utcnow().
Answer(k, status, user, via) ==
    \E drift \in {0, 1} :
        LET token == create_access_token(user.id, user.username, clock, clock + drift)
        IN /\ clock' = clock + drift
           /\ issued' = issued \cup
                 {[user_id |-> user.id, username |-> user.username,
                   token |-> token, via |-> via]}
           /\ resp' = [resp EXCEPT ![k] =
                 [status |-> status, access_token |-> token,
                  token_type |-> "bearer", user |-> user_response(user)]]

Refuse(k, refusal) ==
    /\ resp' = [resp EXCEPT ![k] = refusal]
    /\ UNCHANGED <<clock, issued>>

\* POST /auth/register up to `await wallet_service.create_did()`
RegisterBegin(k) ==
    /\ Idle(k)
    /\ calls < MaxCalls
    /\ calls' = calls + 1
    /\ \E u \in Usernames, e \in Emails, p \in {<<"a">>} :
        areq' = [areq EXCEPT ![k] =
                   [name |-> "register", seq |-> calls + 1,
                    username |-> u, email |-> e,
                    hashed_password |-> hash_password(p, "salt1")]]
    /\ apc' = [apc EXCEPT ![k] = "create_did"]
    /\ resp' = [resp EXCEPT ![k] = NoResp]
    /\ seen' = NoSeen
    /\ UNCHANGED <<rows, nextId, clock, ticks, agentDids, issued>>

\* The collaborator answers (or does not); create_user; token; response.
RegisterEnd(k) ==
    /\ apc[k] = "create_did"
    /\ apc' = [apc EXCEPT ![k] = "idle"]
    /\ \E created \in BOOLEAN, dbfails \in BOOLEAN :
        LET did == IF created THEN agentDids + 1 ELSE NoDid
            c == [name |-> "create_user", username |-> areq[k].username,
                  email |-> areq[k].email,
                  hashed_password |-> areq[k].hashed_password, did |-> did]
            r == StoreCall(rows, nextId, c)
            caught == IF dbfails THEN "OperationalError"
                      ELSE IF r.outcome.kind = "raise" THEN r.outcome.exc
                      ELSE "none"
        IN /\ agentDids' = IF created THEN agentDids + 1 ELSE agentDids
           /\ areq' = [areq EXCEPT ![k] =
                         [name |-> "register", seq |-> areq[k].seq,
                          username |-> areq[k].username,
                          email |-> areq[k].email,
                          hashed_password |-> areq[k].hashed_password,
                          did |-> did, caught |-> caught]]
           /\ IF dbfails
              THEN UNCHANGED <<rows, nextId>>
              ELSE rows' = r.rows /\ nextId' = nextId + 1
           /\ IF caught = "none"
              THEN Answer(k, 201, r.outcome.value, "register")
              ELSE Refuse(k, RegisterRefusal(caught))
    /\ seen' = NoSeen
    /\ UNCHANGED <<calls, ticks>>

\* the checks of login in their order: the first that fails, or "ok"
login_checks_disabled_first(user, password) ==
    IF user = None THEN "user"
    ELSE IF ~user.is_active THEN "is_active"
    ELSE IF ~verify_password(password, user.hashed_password).value THEN "password"
    ELSE "ok"
login_checks(user, password) ==
    IF user = None THEN "user"
    ELSE IF ~verify_password(password, user.hashed_password).value THEN "password"
    ELSE IF ~user.is_active THEN "is_active"
    ELSE "ok"

\* POST /auth/login
Login(k) ==
    /\ Idle(k)
    /\ calls < MaxCalls
    /\ calls' = calls + 1
    /\ \E u \in LoginNames, p \in AppPasswords :
        LET c == [name |-> "get_user_by_username", username |-> u]
            user == StoreCall(rows, nextId, c).outcome.value
        IN /\ areq' = [areq EXCEPT ![k] =
                         [name |-> "login", seq |-> calls + 1,
                          username |-> u, password |-> p]]
           /\ IF login_checks(user, p) = "ok"
              THEN Answer(k, 200, user, "login")
              ELSE Refuse(k, LoginRefusal(login_checks(user, p)))
    /\ seen' = NoSeen
    /\ UNCHANGED <<rows, nextId, ticks, agentDids, apc>>

\* tokens a client can present: the issued ones, one of them re-signed with
\* another key or with its claims changed, and text that is no token
Presented ==
    {e.token : e \in issued}
    \cup {jwt_encode(e.token.payload, "attacker-key") : e \in issued}
    \cup {[e.token EXCEPT !.payload.user_id = 2] : e \in issued}
    \cup {[fmt |-> "text"]}

\* get_current_user(token) on its own: what verify_token logged, what
\* extract_user_from_token returned, what the dependency did
ExtractUser ==
    /\ \E token \in Presented :
        seen' = [ran |-> TRUE, token |-> token, at |-> clock,
                 logged |-> verify_token(token, clock).logged,
                 value |-> extract_user_from_token(token, clock),
                 boundary |-> get_current_user(token, clock)]
    /\ UNCHANGED <<rows, nextId, calls, clock, ticks, agentDids, apc, areq,
                   resp, issued>>

\* GET /auth/me
Me(k) ==
    /\ Idle(k)
    /\ calls < MaxCalls
    /\ calls' = calls + 1
    /\ \E token \in Presented :
        LET current_user == get_current_user(token, clock)
        IN /\ areq' = [areq EXCEPT ![k] = [name |-> "me", seq |-> calls + 1,
                                                 token |-> token, at |-> clock]]
           /\ IF current_user.raised
              THEN Refuse(k, current_user.response)
              ELSE LET c == [name |-> "get_user_by_id",
                             user_id |-> current_user.user_data.user_id]
                       user == StoreCall(rows, nextId, c).outcome.value
                   IN IF user = None
                      THEN Refuse(k, [status |-> 404, detail |-> "User not found"])
                      ELSE Refuse(k, [status |-> 200, user |-> user_response(user)])
    /\ seen' = NoSeen
    /\ UNCHANGED <<rows, nextId, ticks, agentDids, apc>>

\* Store operations that no handler of app.py calls, run by another user of
\* the store between two requests.
StoreOps ==
    {[name |-> "delete_user", user_id |-> 1],
     [name |-> "update_user_password", user_id |-> 1, hashed_password |-> HashB]}

StoreOp ==
    /\ calls < MaxCalls
    /\ calls' = calls + 1
    /\ \E c \in StoreOps :
        /\ RowsById(rows, c.user_id) # {}
        /\ rows' = StoreCall(rows, nextId, c).rows
    /\ seen' = NoSeen
    /\ UNCHANGED <<nextId, clock, ticks, agentDids, apc, areq, resp, issued>>

\* users.is_active set to false for one user, by a statement outside the
\* operations of DatabaseService
Deactivate ==
    /\ calls < MaxCalls
    /\ calls' = calls + 1
    /\ \E r \in rows :
        /\ r.is_active
        /\ rows' = (rows \ {r}) \cup {[r EXCEPT !.is_active = FALSE]}
    /\ seen' = NoSeen
    /\ UNCHANGED <<nextId, clock, ticks, agentDids, apc, areq, resp, issued>>

(* --------------- ConnectionService: invitation URLs ------------------- *)
\* Characters are one-character strings; "%2B" and "%3D" are the
\* percent-escapes of "+" and "=", each one unit of a raw query value.
\* an exception raised, by the name of its class
Throw(e) == [raised |-> TRUE, exc |-> e]
\* raise Exception(f"<text>: {error_text}"): the exception carries the text of
\* the response it was raised for.
ThrowWith(e, text, error_text) ==
    [raised |-> TRUE, exc |-> e, message |-> <<text, error_text>>]

Alphabet ==
    << "A", "B", "C", "D", "E", "F", "G", "H", "I", "J", "K", "L", "M",
       "N", "O", "P", "Q", "R", "S", "T", "U", "V", "W", "X", "Y", "Z",
       "a", "b", "c", "d", "e", "f", "g", "h", "i", "j", "k", "l", "m",
       "n", "o", "p", "q", "r", "s", "t", "u", "v", "w", "x", "y", "z",
       "0", "1", "2", "3", "4", "5", "6", "7", "8", "9", "+", "/" >>
AlphabetChars == {Alphabet[i] : i \in 1..64}
Sextet(ch) == (CHOOSE i \in 1..64 : Alphabet[i] = ch) - 1

\* base64.b64encode: three bytes to four characters, "=" for what is missing
RECURSIVE b64encodeFrom(_, _)
b64encodeFrom(bytes, i) ==
    LET left == Len(bytes) - i + 1
        b1 == bytes[i]
        b2 == IF left >= 2 THEN bytes[i + 1] ELSE 0
        b3 == IF left >= 3 THEN bytes[i + 2] ELSE 0
        c1 == Alphabet[(b1 \div 4) + 1]
        c2 == Alphabet[((b1 % 4) * 16 + b2 \div 16) + 1]
        c3 == Alphabet[((b2 % 16) * 4 + b3 \div 64) + 1]
        c4 == Alphabet[(b3 % 64) + 1]
    IN IF left <= 0 THEN <<>>
       ELSE IF left = 1 THEN <<c1, c2, "=", "=">>
       ELSE IF left = 2 THEN <<c1, c2, c3, "=">>
       ELSE <<c1, c2, c3, c4>> \o b64encodeFrom(bytes, i + 3)
b64encode(bytes) == b64encodeFrom(bytes, 1)

\* binascii.a2b_base64 as base64.b64decode(s) calls it (validate=False):
\* characters outside the alphabet are skipped, a complete run of "=" ends
\* the data, an incomplete last group is an error.
RECURSIVE a2b_base64(_, _, _, _, _, _)
a2b_base64(chars, i, quad_pos, leftchar, pads, out) ==
    IF i > Len(chars)
    THEN IF quad_pos # 0 THEN Throw("binascii.Error") ELSE Value(out)
    ELSE LET ch == chars[i]
         IN IF ch = "="
            THEN IF quad_pos >= 2 /\ quad_pos + pads + 1 >= 4
                 THEN Value(out)
                 ELSE a2b_base64(chars, i + 1, quad_pos, leftchar,
                                 IF quad_pos >= 2 THEN pads + 1 ELSE pads, out)
            ELSE IF ch \notin AlphabetChars
            THEN a2b_base64(chars, i + 1, quad_pos, leftchar, pads, out)
            ELSE LET v == Sextet(ch)
                 IN CASE quad_pos = 0 ->
                           a2b_base64(chars, i + 1, 1, v, 0, out)
                      [] quad_pos = 1 ->
                           a2b_base64(chars, i + 1, 2, v % 16, 0,
                                      Append(out, leftchar * 4 + v \div 16))
                      [] quad_pos = 2 ->
                           a2b_base64(chars, i + 1, 3, v % 4, 0,
                                      Append(out, leftchar * 16 + v \div 4))
                      [] quad_pos = 3 ->
                           a2b_base64(chars, i + 1, 0, 0, 0,
                                      Append(out, leftchar * 64 + v))
b64decode_strict(chars) ==
    IF \E i \in 1..Len(chars) : chars[i] \notin AlphabetChars \cup {"="}
    THEN Throw("binascii.Error")
    ELSE a2b_base64(chars, 1, 0, 0, 0, <<>>)
b64decode(chars) == a2b_base64(chars, 1, 0, 0, 0, <<>>)

\* JSON texts (as UTF-8 bytes) and the values json.loads gives for them;
\* a value is named by its text.
JsonTexts ==
    {[value |-> "{}", bytes |-> <<123, 125>>],
     [value |-> "{\">\":1}", bytes |-> <<123, 34, 62, 34, 58, 49, 125>>],
     [value |-> "{\"a\":1}", bytes |-> <<123, 34, 97, 34, 58, 49, 125>>],
     [value |-> "1", bytes |-> <<49>>]}
JsonObjects == {"{}", "{\">\":1}", "{\"a\":1}"}
\* bytes that are no JSON text: nope
NotJson == <<110, 111, 112, 101>>

json_dumps(j) == (CHOOSE d \in JsonTexts : d.value = j).bytes
json_loads(bytes) ==
    IF \E d \in JsonTexts : d.bytes = bytes
    THEN Value((CHOOSE d \in JsonTexts : d.bytes = bytes).value)
    ELSE Throw("JSONDecodeError")

\* urllib.parse.parse_qs on the query of urlparse(invitation_url). The query
\* is the sequence of its name=value fields with the values as written;
\* parse_qs drops fields with an empty value, turns "+" into a space and
\* resolves the percent-escapes.
UnquoteChar(ch) ==
    CASE ch = "+" -> " "
      [] ch = "%2B" -> "+"
      [] ch = "%3D" -> "="
      [] ch = "%2F" -> "/"
      [] OTHER -> ch
unquote_plus(raw) == [i \in 1..Len(raw) |-> UnquoteChar(raw[i])]
parse_qs(query, name) ==
    LET fields == SelectSeq(query, LAMBDA f : f.name = name /\ f.value # <<>>)
    IN [i \in 1..Len(fields) |-> unquote_plus(fields[i].value)]

\* ConnectionService._parse_invitation_url: the payload, or the exception
\* that is logged and raised again
decode_invitation(encoded) ==
    LET decoded == b64decode(encoded)
    IN IF decoded.raised THEN decoded ELSE json_loads(decoded.value)
_parse_invitation_url(query) ==
    IF parse_qs(query, "c_i") # <<>>
    THEN decode_invitation(parse_qs(query, "c_i")[1])
    ELSE IF parse_qs(query, "oob") # <<>>
    THEN decode_invitation(parse_qs(query, "oob")[1])
    ELSE Throw("ValueError")

(* ------------- ConnectionService: calls to the collaborator ----------- *)
ADMIN_API_KEY == "holder-api-key-change-me"

Field(n, v) == [name |-> n, value |-> v]

\* urllib.parse.quote(text, safe=""), for the characters of base64 text
QuoteChar(ch) ==
    CASE ch = "+" -> "%2B"
      [] ch = "=" -> "%3D"
      [] ch = "/" -> "%2F"
      [] OTHER -> ch
quote(text) == [i \in 1..Len(text) |-> QuoteChar(text[i])]

\* Queries of the invitation URLs the callers pass: base64 of a JSON object
\* appended as it is; the same percent-escaped; neither parameter or an
\* empty one; text that is no base64; base64 of no JSON; base64 of JSON that
\* is no object; both parameters.
InvitationQueries ==
    {<<Field(n, b64encode(json_dumps(j)))>> : n \in {"c_i", "oob"}, j \in JsonObjects}
    \cup {<<Field("oob", quote(b64encode(json_dumps("{\">\":1}"))))>>}
    \cup {<<>>,
          <<Field("other", b64encode(json_dumps("{}")))>>,
          <<Field("c_i", <<>>)>>}
    \cup {<<Field("c_i", <<"e", "3", "0">>)>>,
          <<Field("c_i", <<"e", "*", "3", "0", "=">>)>>}
    \cup {<<Field("oob", b64encode(NotJson))>>}
    \cup {<<Field("c_i", b64encode(json_dumps("1")))>>}
    \cup {<<Field("oob", b64encode(json_dumps("{}"))),
            Field("c_i", b64encode(json_dumps("{\"a\":1}")))>>}

ConnIds == {1, 2}
NoAlias == ""
NoState == ""

ConnCalls ==
    [name : {"receive_invitation"}, query : InvitationQueries, alias : {NoAlias}]
    \cup {[name |-> "receive_invitation",
           query |-> <<Field("c_i", b64encode(json_dumps("{\"a\":1}")))>>,
           alias |-> "work"]}
    \cup [name : {"list_connections"}, state : {NoState, "active"}]
    \cup [name : {"get_connection", "delete_connection", "accept_invitation"},
          connection_id : ConnIds]

\* the request a call sends, or the exception raised before anything is sent
Headers == [X_API_Key |-> ADMIN_API_KEY]

InvitationRequestNoAutoAccept(c) ==
    LET invitation_data == _parse_invitation_url(c.query)
        params == IF c.alias # NoAlias THEN [alias |-> c.alias] ELSE [x \in {} |-> ""]
    IN IF invitation_data.raised
       THEN invitation_data
       ELSE Value([method |-> "POST", path |-> <<"connections", "receive-invitation">>,
                   headers |-> Headers, json |-> invitation_data.value,
                   params |-> params])
InvitationRequest(c) ==
    LET invitation_data == _parse_invitation_url(c.query)
        params == IF c.alias # NoAlias
                  THEN [auto_accept |-> "true", alias |-> c.alias]
                  ELSE [auto_accept |-> "true"]
    IN IF invitation_data.raised
       THEN invitation_data
       ELSE Value([method |-> "POST", path |-> <<"connections", "receive-invitation">>,
                   headers |-> Headers, json |-> invitation_data.value,
                   params |-> params])

Request(c) ==
    CASE c.name = "receive_invitation" -> InvitationRequest(c)
      [] c.name = "list_connections" ->
           Value([method |-> "GET", path |-> <<"connections">>, headers |-> Headers,
                  params |-> IF c.state # NoState THEN [state |-> c.state]
                             ELSE [x \in {} |-> ""]])
      [] c.name = "get_connection" ->
           Value([method |-> "GET", path |-> <<"connections", c.connection_id>>,
                  headers |-> Headers])
      [] c.name = "delete_connection" ->
           Value([method |-> "DELETE", path |-> <<"connections", c.connection_id>>,
                  headers |-> Headers])
      [] c.name = "get_credentials" ->
           Value([method |-> "GET", path |-> <<"credentials">>, headers |-> Headers,
                  params |-> [x \in {} |-> ""]])
      [] c.name = "accept_invitation" ->
           Value([method |-> "POST",
                  path |-> <<"connections", c.connection_id, "accept-invitation">>,
                  headers |-> Headers])

\* what comes back: a response, or no response at all
Unreachable == [kind |-> "unreachable"]
Response(status, body) == [kind |-> "response", status |-> status, body |-> body]
Failed(w) == w.kind = "unreachable" \/ w.status # 200

\* what each method gives its caller for what came back
receive_invitation_result(w) ==
    IF w.kind = "unreachable" THEN Throw("ClientError")
    ELSE IF w.status = 200 THEN Value(w.body)
    ELSE ThrowWith("Exception", "Invitation receive failed", w.body)
accept_invitation_result_degrading(w) ==
    IF w.kind = "unreachable" THEN Value(None)
    ELSE IF w.status = 200 THEN Value(w.body)
    ELSE Value(None)
accept_invitation_result(w) ==
    IF w.kind = "unreachable" THEN Throw("ClientError")
    ELSE IF w.status = 200 THEN Value(w.body)
    ELSE ThrowWith("Exception", "Failed to accept invitation", w.body)
list_connections_result(w) ==
    IF w.kind = "unreachable" THEN Value({})
    ELSE IF w.status = 200 THEN Value(w.body.results)
    ELSE Value({})
get_connection_result(w) ==
    IF w.kind = "unreachable" THEN Value(None)
    ELSE IF w.status = 200 THEN Value(w.body)
    ELSE Value(None)
delete_connection_result_optimistic(w) ==
    IF w.kind = "unreachable" THEN Value(FALSE) ELSE Value(TRUE)
delete_connection_result(w) ==
    IF w.kind = "unreachable" THEN Value(FALSE)
    ELSE IF w.status = 200 THEN Value(TRUE)
    ELSE Value(FALSE)

\* CredentialService.get_credentials
get_credentials_result(w) ==
    IF w.kind = "unreachable" THEN Value({})
    ELSE IF w.status = 200 THEN Value(w.body.results)
    ELSE Value({})

Result(c, w) ==
    CASE c.name = "receive_invitation" -> receive_invitation_result(w)
      [] c.name = "list_connections" -> list_connections_result(w)
      [] c.name = "get_connection" -> get_connection_result(w)
      [] c.name = "delete_connection" -> delete_connection_result(w)
      [] c.name = "accept_invitation" -> accept_invitation_result(w)
      [] c.name = "get_credentials" -> get_credentials_result(w)

\* The collaborator's admin API: the new records and the response for a
\* request it handles. It receives an invitation that is a JSON object with
\* members, and accepts the invitation of a record that is in state
\* "invitation".
NewConnId(conns) ==
    IF conns = {} THEN 1
    ELSE 1 + (CHOOSE i \in {r.connection_id : r \in conns} :
                 \A r \in conns : r.connection_id <= i)

AgentHandle(conns, q) ==
    LET ids == {r.connection_id : r \in conns}
    IN CASE q.method = "POST" /\ Len(q.path) = 3 ->
            IF q.path[2] \notin ids
            THEN [conns |-> conns, response |-> Response(404, "not found")]
            ELSE LET r == CHOOSE x \in conns : x.connection_id = q.path[2]
                     rec == [r EXCEPT !.state = "request"]
                 IN IF r.state = "invitation"
                    THEN [conns |-> (conns \ {r}) \cup {rec},
                          response |-> Response(200, rec)]
                    ELSE [conns |-> conns, response |-> Response(400, "wrong state")]
         [] q.method = "POST" /\ Len(q.path) = 2 ->
            IF q.json \in JsonObjects \ {"{}"}
            THEN LET rec == [connection_id |-> NewConnId(conns),
                             state |-> "request", invitation |-> q.json]
                 IN [conns |-> conns \cup {rec}, response |-> Response(200, rec)]
            ELSE [conns |-> conns, response |-> Response(422, "invalid invitation")]
         [] q.method = "GET" /\ Len(q.path) = 1 /\ q.path[1] = "credentials" ->
            [conns |-> conns, response |-> Response(200, [results |-> {}])]
         [] q.method = "GET" /\ Len(q.path) = 1 /\ q.path[1] = "connections" ->
            [conns |-> conns,
             response |-> Response(200,
                [results |-> IF "state" \in DOMAIN q.params
                             THEN {r \in conns : r.state = q.params.state}
                             ELSE conns])]
         [] q.method = "GET" /\ Len(q.path) = 2 ->
            IF q.path[2] \in ids
            THEN [conns |-> conns,
                  response |-> Response(200, CHOOSE r \in conns : r.connection_id = q.path[2])]
            ELSE [conns |-> conns, response |-> Response(404, "not found")]
         [] q.method = "DELETE" ->
            IF q.path[2] \in ids
            THEN [conns |-> {r \in conns : r.connection_id # q.path[2]},
                  response |-> Response(200, "deleted")]
            ELSE [conns |-> conns, response |-> Response(404, "not found")]

\* class ConnectionState(str, Enum)
ConnectionState == {"invitation", "request", "response", "active", "error",
                    "completed"}

\* The states the collaborator gives its records: those of ConnectionState
\* and states of its own.
AgentStates == {"invitation", "request", "response", "active", "error",
                "completed", "abandoned"}

\* What the collaborator holds when the service starts: an active connection,
\* and possibly a second record further back in the protocol or given up.
InitConns ==
    LET first == [connection_id |-> 1, state |-> "active", invitation |-> "{\"a\":1}"]
        second(st) == [connection_id |-> 2, state |-> st, invitation |-> "{\"a\":1}"]
    IN {{first}} \cup {{first, second(st)} : st \in {"invitation", "abandoned"}}

NoOutcome == [raised |-> FALSE, value |-> "nothing yet"]
NoRequest == [method |-> "none"]

ConnInit ==
    /\ cpc = "idle"
    /\ cop = NoCall
    /\ creq = NoRequest
    /\ cwire = Unreachable
    /\ cout = NoOutcome
    /\ agentLog = <<>>
    /\ agentConns \in InitConns

\* A method is called and runs to its first request; receive_invitation
\* parses the URL on the way and may raise there.
ConnCall ==
    /\ cpc = "idle"
    /\ calls < MaxCalls
    /\ calls' = calls + 1
    /\ \E c \in ConnCalls :
        LET q == Request(c)
        IN /\ cop' = c
           /\ IF q.raised
              THEN /\ cout' = q
                   /\ cpc' = "idle"
                   /\ creq' = NoRequest
              ELSE /\ cout' = NoOutcome
                   /\ cpc' = "send"
                   /\ creq' = q.value
    /\ UNCHANGED <<cwire, agentLog, agentConns>>

\* The request reaches the collaborator, which handles it and answers.
Handled ==
    /\ cpc = "send"
    /\ cpc' = "received"
    /\ agentLog' = Append(agentLog, creq)
    /\ agentConns' = AgentHandle(agentConns, creq).conns
    /\ cwire' = AgentHandle(agentConns, creq).response
    /\ UNCHANGED <<calls, cop, creq, cout>>

\* The request reaches the collaborator, which answers with a server error
\* and changes nothing.
Rejected ==
    /\ cpc = "send"
    /\ cpc' = "received"
    /\ agentLog' = Append(agentLog, creq)
    /\ cwire' = Response(500, "internal error")
    /\ UNCHANGED <<calls, cop, creq, cout, agentConns>>

\* The collaborator cannot be reached.
Lost ==
    /\ cpc = "send"
    /\ cpc' = "received"
    /\ cwire' = Unreachable
    /\ UNCHANGED <<calls, cop, creq, cout, agentLog, agentConns>>

\* The method returns or raises for what came back.
ConnReturn ==
    /\ cpc = "received"
    /\ cpc' = "idle"
    /\ cout' = Result(cop, cwire)
    /\ UNCHANGED <<calls, cop, creq, cwire, agentLog, agentConns>>

(* -------------- app.py: the endpoints behind get_current_user ---------- *)
\* Depends(get_current_user) in the signature of an endpoint: the dependency
\* runs before the body of the handler.
DependsOpenCredentials(c, token, now) ==
    IF c.name = "get_credentials"
    THEN [raised |-> FALSE, user_data |-> None]
    ELSE get_current_user(token, now)
Depends(c, token, now) == get_current_user(token, now)

\* str(e) of what a service raised
str(e) == IF "message" \in DOMAIN e THEN e.message ELSE <<e.exc>>

\* what the handler of an endpoint answers for what its service call gave
EndpointResponse(c, out) ==
    CASE c.name = "receive_invitation" ->
           IF out.raised THEN [status |-> 400, detail |-> str(out)]
           ELSE [status |-> 201, body |-> out.value]
      [] c.name = "list_connections" ->
           [status |-> 200,
            body |-> [connections |-> out.value, total |-> Cardinality(out.value)]]
      [] c.name = "get_connection" ->
           IF out.value = None
           THEN [status |-> 404, detail |-> "Connection not found"]
           ELSE [status |-> 200, body |-> out.value]
      [] c.name = "delete_connection" ->
           IF out.value THEN [status |-> 204]
           ELSE [status |-> 404, detail |-> "Connection not found"]
      [] c.name = "get_credentials" ->
           [status |-> 200,
            body |-> [credentials |-> out.value, total |-> Cardinality(out.value)]]

\* GET /wallet/did
get_wallet_did(rs, current_user) ==
    LET c == [name |-> "get_user_by_id", user_id |-> current_user.user_id]
        user == StoreCall(rs, 0, c).outcome.value
    IN IF user = None \/ user.did = NoDid
       THEN [status |-> 404, detail |-> "DID not found for user"]
       ELSE [status |-> 200, did |-> user.did]

\* The requests: an endpoint with its arguments, and a bearer token. The
\* tokens are those of two users, a text that is no token, a token signed
\* with another key and a token of the first user that has expired.
UserTokens ==
    {create_access_token(1, "alice", 0, 0), create_access_token(2, "bob", 0, 0)}
FailingTokens ==
    {[fmt |-> "text"],
     jwt_encode(create_access_token(1, "alice", 0, 0).payload, "attacker-key"),
     create_access_token(1, "alice", 0 - Lifetime, 0 - Lifetime)}

Endpoints ==
    {[name |-> "receive_invitation",
      query |-> <<Field("c_i", b64encode(json_dumps("{\"a\":1}")))>>,
      alias |-> NoAlias],
     [name |-> "receive_invitation", query |-> <<>>, alias |-> NoAlias],
     [name |-> "list_connections", state |-> NoState],
     [name |-> "get_connection", connection_id |-> 2],
     [name |-> "delete_connection", connection_id |-> 2],
     [name |-> "get_credentials"],
     [name |-> "get_wallet_did"]}

ServiceOf(c) ==
    CASE c.name = "get_wallet_did" -> "db_service"
      [] c.name = "get_credentials" -> "credential_service"
      [] OTHER -> "connection_service"

NoBearer == [fmt |-> "none"]

EdgeInit ==
    /\ bearer = NoBearer
    /\ eresp = NoResp
    /\ received = {}
    /\ served = <<>>

\* A request arrives: the dependency runs, then the body of the handler up
\* to its first request to the collaborator. GET /wallet/did reads the
\* store and answers in one piece.
EndpointCall ==
    /\ cpc = "idle"
    /\ calls < MaxCalls
    /\ calls' = calls + 1
    /\ \E c \in Endpoints, token \in UserTokens \cup FailingTokens :
        LET current_user == Depends(c, token, clock)
            q == Request(c)
            call == [seq |-> calls + 1, service |-> ServiceOf(c), op |-> c.name]
        IN /\ cop' = c
           /\ bearer' = token
           /\ IF current_user.raised
              THEN /\ eresp' = current_user.response
                   /\ served' = served
                   /\ cout' = NoOutcome
                   /\ cpc' = "idle"
                   /\ creq' = NoRequest
              ELSE IF c.name = "get_wallet_did"
              THEN /\ eresp' = get_wallet_did(rows, current_user.user_data)
                   /\ served' = Append(served, call)
                   /\ cout' = NoOutcome
                   /\ cpc' = "idle"
                   /\ creq' = NoRequest
              ELSE IF q.raised
              THEN /\ eresp' = EndpointResponse(c, q)
                   /\ served' = Append(served, call)
                   /\ cout' = q
                   /\ cpc' = "idle"
                   /\ creq' = NoRequest
              ELSE /\ eresp' = NoResp
                   /\ served' = Append(served, call)
                   /\ cout' = NoOutcome
                   /\ cpc' = "send"
                   /\ creq' = q.value
    /\ UNCHANGED <<cwire, agentLog, agentConns, received>>

\* The service call returns or raises and the handler answers.
EndpointReturn ==
    /\ cpc = "received"
    /\ cpc' = "idle"
    /\ cout' = Result(cop, cwire)
    /\ eresp' = EndpointResponse(cop, Result(cop, cwire))
    /\ received' =
         IF cop.name = "receive_invitation" /\ ~Result(cop, cwire).raised
         THEN received \cup
                {[connection_id |-> Result(cop, cwire).value.connection_id,
                  user_id |-> get_current_user(bearer, clock).user_data.user_id]}
         ELSE received
    /\ UNCHANGED <<calls, cop, creq, cwire, agentLog, agentConns, bearer, served>>

vars == <<storeVars, pwVars, appVars, connVars>>

Init == StoreInit /\ PwInit /\ AppInit /\ ConnInit /\ EdgeInit

\* The collaborator's records play no part in the operations of the store
\* and in the handlers of register, login and /auth/me: one set of them is
\* enough there.
InitStore == Init /\ Cardinality(agentConns) = 1

\* callers of the store's operations, each at its own pace
Next ==
    \/ \E t \in Tasks : Call(t) /\ UNCHANGED <<pwVars, appVars, connVars>>
    \/ \E t \in Tasks : Execute(t) /\ UNCHANGED <<pwVars, appVars, connVars>>
    \/ \E t \in Tasks : Commit(t) /\ UNCHANGED <<pwVars, appVars, connVars>>
    \/ \E t \in Tasks : Rollback(t) /\ UNCHANGED <<pwVars, appVars, connVars>>
    \/ \E t \in Tasks : PutConn(t) /\ UNCHANGED <<pwVars, appVars, connVars>>
    \/ \E t \in Tasks : Return(t) /\ UNCHANGED <<pwVars, appVars, connVars>>

Spec == InitStore /\ [][Next]_vars

\* one caller, and other users of the pool taking and returning connections
NextPool ==
    \/ Call(1) /\ UNCHANGED <<pwVars, appVars, connVars>>
    \/ Execute(1) /\ UNCHANGED <<pwVars, appVars, connVars>>
    \/ Commit(1) /\ UNCHANGED <<pwVars, appVars, connVars>>
    \/ Rollback(1) /\ UNCHANGED <<pwVars, appVars, connVars>>
    \/ PutConn(1) /\ UNCHANGED <<pwVars, appVars, connVars>>
    \/ Return(1) /\ UNCHANGED <<pwVars, appVars, connVars>>
    \/ OtherAcquire /\ UNCHANGED <<pwVars, appVars, connVars>>
    \/ OtherRelease /\ UNCHANGED <<pwVars, appVars, connVars>>

SpecPool == InitStore /\ [][NextPool]_vars

\* register requests, each awaiting the collaborator and then the store
NextReg ==
    \/ \E t \in Tasks : RegisterAwait(t) /\ UNCHANGED <<pwVars, appVars, connVars>>
    \/ \E t \in Tasks : RegisterResume(t) /\ UNCHANGED <<pwVars, appVars, connVars>>
    \/ \E t \in Tasks : Execute(t) /\ UNCHANGED <<pwVars, appVars, connVars>>
    \/ \E t \in Tasks : Commit(t) /\ UNCHANGED <<pwVars, appVars, connVars>>
    \/ \E t \in Tasks : Rollback(t) /\ UNCHANGED <<pwVars, appVars, connVars>>
    \/ \E t \in Tasks : PutConn(t) /\ UNCHANGED <<pwVars, appVars, connVars>>
    \/ \E t \in Tasks : Return(t) /\ UNCHANGED <<pwVars, appVars, connVars>>

SpecReg == InitStore /\ [][NextReg]_vars

\* hash_password and verify_password on their own
NextPw ==
    \/ HashPassword /\ UNCHANGED <<storeVars, appVars, connVars>>
    \/ VerifyStored /\ UNCHANGED <<storeVars, appVars, connVars>>
    \/ VerifyForeign /\ UNCHANGED <<storeVars, appVars, connVars>>
    \/ NextRound /\ UNCHANGED <<storeVars, appVars, connVars>>

InitPw == InitStore /\ rows = {}

SpecPw == InitPw /\ [][NextPw]_vars

\* the handlers of app.py on one event loop, and the clock
idleStore == <<poolUsed, others, pc, op, conn, pending, exc, result, outcome, trace>>

NextApp ==
    \/ Tick /\ UNCHANGED <<rows, nextId, calls, idleStore, pwVars, connVars>>
    \/ \E k \in Tasks : RegisterBegin(k) /\ UNCHANGED <<idleStore, pwVars, connVars>>
    \/ \E k \in Tasks : RegisterEnd(k) /\ UNCHANGED <<idleStore, pwVars, connVars>>
    \/ \E k \in Tasks : Login(k) /\ UNCHANGED <<idleStore, pwVars, connVars>>
    \/ \E k \in Tasks : Me(k) /\ UNCHANGED <<idleStore, pwVars, connVars>>
    \/ StoreOp /\ UNCHANGED <<idleStore, pwVars, connVars>>
    \/ Deactivate /\ UNCHANGED <<idleStore, pwVars, connVars>>
    \/ ExtractUser /\ UNCHANGED <<idleStore, pwVars, connVars>>

SpecApp == InitStore /\ [][NextApp]_vars

\* one caller of ConnectionService and the collaborator
idleRest == <<rows, nextId, idleStore, pwVars, appVars, edgeVars>>

NextConn ==
    \/ ConnCall /\ UNCHANGED idleRest
    \/ Handled /\ UNCHANGED idleRest
    \/ Rejected /\ UNCHANGED idleRest
    \/ Lost /\ UNCHANGED idleRest
    \/ ConnReturn /\ UNCHANGED idleRest

InitConn == StoreInit /\ rows = {} /\ PwInit /\ AppInit /\ ConnInit /\ EdgeInit

SpecConn == InitConn /\ [][NextConn]_vars

\* the endpoints behind get_current_user, one request at a time, and the
\* collaborator
idleEdge == <<rows, nextId, idleStore, pwVars, appVars>>

NextEdge ==
    \/ EndpointCall /\ UNCHANGED idleEdge
    \/ Handled /\ UNCHANGED <<idleEdge, edgeVars>>
    \/ Rejected /\ UNCHANGED <<idleEdge, edgeVars>>
    \/ Lost /\ UNCHANGED <<idleEdge, edgeVars>>
    \/ EndpointReturn /\ UNCHANGED idleEdge

SpecEdge == Init /\ [][NextEdge]_vars

(* ======================= claims on the store ========================== *)
Count(s, x) == Cardinality({i \in 1..Len(s) : s[i] = x})
Has(s, x) == \E i \in 1..Len(s) : s[i] = x
\* the step is one of caller t's own
StepOf(t) == pc'[t] # pc[t]

\* C1: on every exit path of every operation the connection that getconn
\* handed out is given back with putconn exactly once, and never when getconn
\* itself failed; a caller holds a connection exactly between the two; so
\* with no operation in progress no connection is checked out.
C1_ReleasedExactlyOnce ==
    /\ \A t \in Tasks :
        /\ Count(trace[t], "putconn") <= Count(trace[t], "getconn")
        /\ pc[t] = "done" =>
              Count(trace[t], "putconn") = Count(trace[t], "getconn")
        /\ Has(trace[t], "getconn!") => ~Has(trace[t], "putconn")
        /\ conn[t] <=> (Has(trace[t], "getconn") /\ ~Has(trace[t], "putconn"))
    /\ poolUsed = Cardinality({t \in Tasks : conn[t]}) + others
    /\ (\A t \in Tasks : ~InFlight(t)) => poolUsed = others

\* an operation ended by a failed statement or a failed commit, connection back
C1_Witness ==
    \E t \in Tasks :
        /\ pc[t] = "done"
        /\ op[t].name = "delete_user"
        /\ Has(trace[t], "commit!")
        /\ Has(trace[t], "putconn")
        /\ poolUsed = 0

\* C2: commit is called only after the statement completed without raising,
\* a result reaches the caller only after a successful commit, and a failed
\* statement or commit is followed by rollback and a raised error, no result.
C2_CommitOnlyOnSuccess ==
    \A t \in Tasks :
        /\ (Has(trace[t], "commit") \/ Has(trace[t], "commit!")) =>
              Has(trace[t], "execute") /\ ~Has(trace[t], "execute!")
        /\ outcome[t].kind = "return" =>
              /\ Has(trace[t], "commit")
              /\ ~Has(trace[t], "rollback")
              /\ trace[t][Len(trace[t]) - 1] = "commit"
        /\ (pc[t] = "done" /\ (Has(trace[t], "execute!") \/ Has(trace[t], "commit!"))) =>
              /\ Has(trace[t], "rollback")
              /\ ~Has(trace[t], "commit")
              /\ outcome[t].kind = "raise"
        /\ pc[t] = "done" => outcome[t].kind \in {"return", "raise"}

C2_Witness ==
    \E t \in Tasks :
        /\ pc[t] = "done"
        /\ op[t].name = "create_user"
        /\ trace[t] = <<"getconn", "execute", "commit!", "rollback", "putconn">>
        /\ outcome[t].kind = "raise"

\* C4: no step of an operation whose statement (or commit) failed changes
\* the committed rows, and the rows other operations see never hold a change
\* of a transaction that is still open.
C4_FailedLeavesRows ==
    [][\A t \in Tasks :
          /\ (StepOf(t) /\ exc'[t] # "none") => rows' = rows
          /\ (StepOf(t) /\ pc'[t] # "putconn") => rows' = rows]_vars

C4_Witness ==
    \E t \in Tasks :
        /\ pc[t] = "done"
        /\ op[t].name = "update_user_password"
        /\ Has(trace[t], "commit!")
        /\ \E r \in rows : r.id = 1 /\ r.hashed_password = HashA

Duplicate(c) ==
    \/ /\ c.name = "create_user"
       /\ \E r \in rows : r.username = c.username \/ r.email = c.email
    \/ /\ c.name = "update_user_email"
       /\ \E r \in rows : r.id = c.user_id
       /\ \E r \in rows : r.id # c.user_id /\ r.email = c.email

\* C5: create_user with a taken username or email, and update_user_email to
\* another row's email, never succeed and change no row; the unique
\* violation reaches the caller as ValueError, every other failure as the
\* exception that was raised.
C5_DuplicateIsValueError ==
    [][\A t \in Tasks :
          /\ (StepOf(t) /\ pc[t] = "execute" /\ Duplicate(op[t])) =>
                /\ exc'[t] \in {"IntegrityError", "OperationalError"}
                /\ pending'[t] = NoChange
                /\ rows' = rows
          /\ (StepOf(t) /\ exc'[t] = "IntegrityError") => rows' = rows
          /\ (StepOf(t) /\ pc'[t] = "done") =>
                /\ exc[t] = "IntegrityError" =>
                      /\ op[t].name \in {"create_user", "update_user_email"}
                      /\ outcome'[t] = [kind |-> "raise", exc |-> "ValueError"]
                /\ exc[t] \in {"OperationalError", "PoolError"} =>
                      outcome'[t] = [kind |-> "raise", exc |-> exc[t]]]_vars

C5_Witness ==
    \E t \in Tasks :
        /\ pc[t] = "done"
        /\ op[t].name = "update_user_email"
        /\ exc[t] = "IntegrityError"
        /\ outcome[t].kind = "raise"
        /\ outcome[t].exc = "ValueError"
        /\ Cardinality(rows) = 2

\* C6: no two committed rows share a username, an email or an id.
C6_UniqueRows ==
    \A r1 \in rows : \A r2 \in rows :
        (r1 # r2) =>
            /\ r1.username # r2.username
            /\ r1.email # r2.email
            /\ r1.id # r2.id

\* two rows, both written by create_user calls of this run
C6_Witness ==
    /\ Cardinality(rows) = 2
    /\ \E r \in rows : r.id = 1 /\ r.username = "bob"

(* ===================== claims on the passwords ======================== *)
First72(b) == IF Len(b) > 72 THEN SubSeq(b, 1, 72) ELSE b
Checked == pwResult.ran /\ pwFrom = "hash_password"

\* C7 as claimed: for a password p of at most 72 bytes, verify_password
\* against hash_password(p) is true for p and false for every other password.
C7_OnlyThePasswordVerifies ==
    (Checked /\ Len(encode(pwPlain)) <= 72) =>
        (pwResult.value <=> pwCand = pwPlain)

\* C7 as the code behaves: for a password p of at most 72 bytes,
\* verify_password(p, hash_password(p)) is true, and verify_password(q,
\* hash_password(p)) is false for every q whose encoding, cut to its first 72
\* bytes, differs from p's encoding (so also for every q # p of at most 72
\* bytes); a longer q that agrees with p on its first 72 bytes verifies.
C7_RoundTripUpToTruncation ==
    (Checked /\ Len(encode(pwPlain)) <= 72) =>
        /\ pwCand = pwPlain => pwResult.value
        /\ (Encodable(pwCand) /\ First72(encode(pwCand)) # encode(pwPlain)) =>
              ~pwResult.value
        /\ (Encodable(pwCand) /\ pwCand # pwPlain /\ Len(encode(pwCand)) <= 72) =>
              ~pwResult.value
        /\ ~Encodable(pwCand) => ~pwResult.value

\* a password of exactly 72 bytes verified, and a different one refused
C7_Witness ==
    /\ Checked
    /\ Len(encode(pwPlain)) = 72
    /\ pwCand = pwPlain
    /\ pwResult.value

\* C8: two passwords whose encodings agree on their first 72 bytes verify
\* against each other's hash; a password longer than 72 bytes verifies
\* against its own hash.
C8_SameTruncationVerifies ==
    (Checked /\ Encodable(pwCand)
       /\ First72(encode(pwCand)) = First72(encode(pwPlain))) =>
        (pwResult.value /\ ~pwResult.raised)

C8_Witness ==
    /\ Checked
    /\ Encodable(pwCand)
    /\ Len(encode(pwPlain)) > 72
    /\ Len(encode(pwCand)) > 72
    /\ pwCand # pwPlain
    /\ pwResult.value

\* C9: verify_password hands its caller a boolean for every candidate and
\* every stored value, never an exception, and FALSE whenever the stored
\* value is no hash that can be checked or the candidate cannot be encoded.
C9_VerifyNeverRaises ==
    pwResult.ran =>
        /\ ~pwResult.raised
        /\ pwResult.value \in BOOLEAN
        /\ (pwHash.fmt # "bcrypt" \/ ~Encodable(pwCand)) => ~pwResult.value

C9_Witness ==
    /\ pwResult.ran
    /\ pwFrom = "foreign"
    /\ pwHash.fmt = "text"
    /\ Encodable(pwCand)
    /\ ~pwResult.raised
    /\ ~pwResult.value

(* ------------------------------ C10 ----------------------------------- *)
TokenOf(e) == e.token
Identity(user_id, username) == [user_id |-> user_id, username |-> username]

\* C10: a token made by create_access_token(user_id, username) and checked
\* while the time is before its exp gives back, through
\* extract_user_from_token, exactly the user_id and username it was made
\* with; and the token in a successful answer of register or login was made
\* with, and gives back, the id and username of the user in that answer, who
\* is the user of the request.
C10_TokenIdentifiesUser ==
    /\ seen.ran =>
         \A e \in issued :
            (TokenOf(e) = seen.token /\ seen.at < e.token.payload.exp)
               => seen.value = Identity(e.user_id, e.username)
    /\ \A k \in Tasks :
         (areq[k].name \in {"register", "login"} /\ resp[k].status \in {200, 201}) =>
            /\ \E e \in issued :
                 /\ TokenOf(e) = resp[k].access_token
                 /\ e.user_id = resp[k].user.id
                 /\ e.username = resp[k].user.username
            /\ clock < resp[k].access_token.payload.exp =>
                 extract_user_from_token(resp[k].access_token, clock)
                    = Identity(resp[k].user.id, resp[k].user.username)
            /\ resp[k].user.username = areq[k].username

\* a token given by register is checked in the last second before its exp,
\* while another request has been answered by login
C10_Witness ==
    /\ seen.ran
    /\ seen.value # None
    /\ seen.at = seen.token.payload.exp - 1
    /\ \E e \in issued : TokenOf(e) = seen.token /\ e.via = "register"
    /\ \E k \in Tasks : areq[k].name = "login" /\ resp[k].status = 200

(* ------------------------------ C11 ----------------------------------- *)
CorrectlySigned(token) ==
    /\ token.fmt = "jwt"
    /\ token.sig = [key |-> JWT_SECRET_KEY, payload |-> token.payload]

\* C11: a correctly signed token checked at or after its exp is rejected by
\* verify_token through the expired case ("Token has expired"), a token
\* that is malformed or wrongly signed through the other case ("Invalid
\* token"); in both cases extract_user_from_token gives no claims and
\* get_current_user, and with it GET /auth/me, answers with the same 401.
C11_ExpiredIsNotMalformed ==
    /\ seen.ran =>
         /\ (CorrectlySigned(seen.token) /\ seen.at >= seen.token.payload.exp)
               => seen.logged = "Token has expired"
         /\ ~CorrectlySigned(seen.token) => seen.logged = "Invalid token"
         /\ seen.logged # "none" =>
               /\ seen.value = None
               /\ seen.boundary = [raised |-> TRUE, response |-> Unauthenticated]
    /\ \A k \in Tasks :
         areq[k].name = "me" =>
            ((~CorrectlySigned(areq[k].token)
               \/ areq[k].at >= areq[k].token.payload.exp)
             => resp[k] = Unauthenticated)

\* an issued token is checked after its exp, and GET /auth/me has answered
\* a request that carried a wrongly signed token
C11_Witness ==
    /\ seen.ran
    /\ CorrectlySigned(seen.token)
    /\ seen.at >= seen.token.payload.exp
    /\ seen.logged = "Token has expired"
    /\ \E k \in Tasks :
         /\ areq[k].name = "me"
         /\ areq[k].token.fmt = "jwt"
         /\ ~CorrectlySigned(areq[k].token)
         /\ resp[k].status = 401

(* ------------------------------ C12 ----------------------------------- *)
\* C12: every token built by create_access_token carries iat and exp taken
\* from one and the same instant, so that exp - iat is exactly the
\* configured lifetime. (The code reads the clock once for exp and once more
\* for iat; a second boundary between the two readings makes the difference
\* shorter.)
C12_ExpMinusIatIsLifetime ==
    \A e \in issued :
        e.token.payload.exp - e.token.payload.iat = Lifetime

(* ------------------------------ C13 ----------------------------------- *)
Accepted(b) == ~b.raised

\* C13: a correctly signed token is accepted by verify_token and by
\* get_current_user at every check made before its exp, whatever has
\* happened to its user's row in between (deleted, password changed,
\* deactivated), and at no check made at or after its exp; GET /auth/me
\* answers 401 for it exactly from exp on.
C13_LifetimeBoundedByExpOnly ==
    /\ (seen.ran /\ CorrectlySigned(seen.token)) =>
         /\ seen.at < seen.token.payload.exp =>
               (seen.logged = "none" /\ seen.value # None /\ Accepted(seen.boundary))
         /\ seen.at >= seen.token.payload.exp =>
               (seen.logged # "none" /\ seen.value = None /\ ~Accepted(seen.boundary))
    /\ \A k \in Tasks :
         (areq[k].name = "me" /\ CorrectlySigned(areq[k].token)) =>
            (resp[k].status = 401 <=> areq[k].at >= areq[k].token.payload.exp)

\* a token is accepted although the row of its user is gone or changed
NoRowAsIssued(token) ==
    \A r \in rows :
        \/ r.id # token.payload.user_id
        \/ ~r.is_active
        \/ r.hashed_password # HashA

C13_Witness ==
    /\ seen.ran
    /\ CorrectlySigned(seen.token)
    /\ Accepted(seen.boundary)
    /\ seen.at > seen.token.payload.iat
    /\ NoRowAsIssued(seen.token)

(* ------------------------------ C14 ----------------------------------- *)
Answered(k, name, status) == areq[k].name = name /\ resp[k].status = status

\* C14: no response of register, login or GET /auth/me carries a
\* hashed_password, neither at its top level nor in the user it describes.
C14_NoHashedPasswordInResponses ==
    \A k \in Tasks :
        /\ "hashed_password" \notin DOMAIN resp[k]
        /\ "user" \in DOMAIN resp[k] =>
              "hashed_password" \notin DOMAIN resp[k].user

\* login has answered with the user whose row, hash included, it read from
\* the store, and register has answered another request
C14_Witness ==
    /\ \E k \in Tasks :
         /\ Answered(k, "login", 200)
         /\ \E r \in rows : r.id = resp[k].user.id /\ r.hashed_password = HashA
    /\ \E k \in Tasks : areq[k].name = "register" /\ resp[k].status # 0

(* ------------------------------ C15 ----------------------------------- *)
\* the step handles a login request in slot k
LoginStep(k) == areq'[k] # areq[k] /\ areq'[k].name = "login"

NoSuchUser(u) == \A r \in rows : r.username # u
WrongPassword(u, p) ==
    \E r \in rows :
        r.username = u /\ ~verify_password(p, r.hashed_password).value

\* C15: a login with a username no row has and a login with the username
\* of a row and a password that does not verify get one and the same
\* response, status and body.
C15_LoginFailuresAlike ==
    [][\A k \in Tasks :
         (LoginStep(k)
            /\ \/ NoSuchUser(areq'[k].username)
               \/ WrongPassword(areq'[k].username, areq'[k].password))
         => resp'[k] = [status |-> 401, detail |-> "Invalid username or password"]
      ]_vars

\* both kinds of failed login have been answered
C15_Witness ==
    \E j, k \in Tasks :
        /\ Answered(j, "login", 401)
        /\ NoSuchUser(areq[j].username)
        /\ Answered(k, "login", 401)
        /\ WrongPassword(areq[k].username, areq[k].password)
        /\ resp[j] = resp[k]

(* ------------------------------ C16 ----------------------------------- *)
\* the step is the second half of register in slot k
RegisterEndStep(k) == apc[k] = "create_did" /\ apc'[k] = "idle"

Taken(k) ==
    \E r \in rows :
        r.username = areq[k].username \/ r.email = areq[k].email

ClientErrors == 400..499
ServerErrors == 500..599

\* C16: when create_user fails because the username or the email of the
\* registration is taken, register answers with a client error that carries
\* the duplicate message and not with a server error; when create_user fails
\* for any other reason, register answers with a server error; create_user
\* reports the duplicate exactly when it ran and a row had the username or
\* the email.
C16_DuplicateIsClientError ==
    [][\A k \in Tasks :
         RegisterEndStep(k) =>
            /\ areq'[k].caught = "ValueError" =>
                  /\ Taken(k)
                  /\ resp'[k].status \in ClientErrors
                  /\ resp'[k].detail = "Username or email already exists"
            /\ areq'[k].caught \notin {"none", "ValueError"} =>
                  resp'[k].status \in ServerErrors
            /\ areq'[k].caught = "none" =>
                  (~Taken(k) /\ resp'[k].status = 201)
            /\ resp'[k].status \in ServerErrors =>
                  areq'[k].caught \notin {"none", "ValueError"}
      ]_vars

\* one registration was refused as a duplicate, another because the store
\* failed
C16_Witness ==
    \E j, k \in Tasks :
        /\ Answered(j, "register", 400)
        /\ areq[j].caught = "ValueError"
        /\ Answered(k, "register", 500)
        /\ areq[k].caught = "OperationalError"

(* ==================== claims on ConnectionService ===================== *)
\* receive_invitation was called with this query
ReceivedQuery(query) == cop.name = "receive_invitation" /\ cop.query = query

\* _parse_invitation_url returned this payload to receive_invitation
ParsedAs(j) == creq # NoRequest /\ creq.json = j

\* _parse_invitation_url raised: nothing was built, the error went to the caller
ParseErrors == {"ValueError", "binascii.Error", "JSONDecodeError"}
ParseFailed == creq = NoRequest /\ cout.raised /\ cout.exc \in ParseErrors

(* ------------------------------ C17 ----------------------------------- *)
\* C17: for every JSON object j, _parse_invitation_url applied to a URL
\* whose query is c_i=base64(j) returns j, and so it does with oob in place
\* of c_i. (base64 text with a "+" in it comes out of parse_qs with a space
\* in the place of the "+", and decoding then fails.)
C17_ParseRoundTrip ==
    \A n \in {"c_i", "oob"}, j \in JsonObjects :
        ReceivedQuery(<<Field(n, b64encode(json_dumps(j)))>>) => ParsedAs(j)

(* ------------------------------ C18 ----------------------------------- *)
\* the value _parse_invitation_url decodes: of c_i, or else of oob
Carried(query) ==
    IF parse_qs(query, "c_i") # <<>> THEN parse_qs(query, "c_i")
    ELSE parse_qs(query, "oob")

\* base64 text: characters of the alphabet in groups of four, the last
\* group filled up with one or two "="
ValidBase64(text) ==
    /\ Len(text) % 4 = 0
    /\ \A i \in 1..Len(text) :
          \/ text[i] \in AlphabetChars
          \/ /\ text[i] = "="
             /\ i >= Len(text) - 1
             /\ \A k \in i..Len(text) : text[k] = "="

ValidJson(bytes) == \E d \in JsonTexts : d.bytes = bytes

\* C18: _parse_invitation_url raises a parse error and returns no payload
\* when the URL carries neither c_i nor oob, when the value carried is not
\* valid base64, and when the decoded bytes are no JSON text. (Characters
\* outside the base64 alphabet are skipped by b64decode, so a value that is
\* not valid base64 can be decoded and accepted.)
C18_BadUrlsFail ==
    cop.name = "receive_invitation" =>
        LET carried == Carried(cop.query)
        IN (\/ carried = <<>>
            \/ ~ValidBase64(carried[1])
            \/ ~ValidJson(b64decode_strict(carried[1]).value))
           => ParseFailed

(* ------------------------------ C19 ----------------------------------- *)
Last(log) == log[Len(log)]

\* C19: receive_invitation parses the URL before it sends anything. A call
\* whose URL does not parse raises the parse error at once and the
\* collaborator receives nothing; the POST the collaborator receives from a
\* call comes after the parse, has the parsed invitation as its body and
\* carries auto_accept=true.
C19_ParseBeforePost ==
    [][/\ (calls' # calls /\ cop'.name = "receive_invitation"
             /\ _parse_invitation_url(cop'.query).raised)
          => /\ cout' = _parse_invitation_url(cop'.query)
             /\ cpc' = "idle"
             /\ creq' = NoRequest
             /\ agentLog' = agentLog
       /\ (agentLog' # agentLog /\ cop.name = "receive_invitation")
          => /\ cpc = "send"
             /\ ~_parse_invitation_url(cop.query).raised
             /\ agentLog' = Append(agentLog, creq)
             /\ Last(agentLog').method = "POST"
             /\ Last(agentLog').path = <<"connections", "receive-invitation">>
             /\ Last(agentLog').json = _parse_invitation_url(cop.query).value
             /\ "auto_accept" \in DOMAIN Last(agentLog').params
             /\ Last(agentLog').params.auto_accept = "true"
      ]_vars

\* the collaborator has received the invitation of one call, and nothing
\* from a second call, whose URL did not parse
C19_Witness ==
    /\ calls = 2
    /\ Len(agentLog) = 1
    /\ agentLog[1].method = "POST"
    /\ "json" \in DOMAIN agentLog[1]
    /\ agentLog[1].json = "{\">\":1}"
    /\ cop.name = "receive_invitation"
    /\ ParseFailed

(* ------------------------------ C20 ----------------------------------- *)
\* the call of one of these methods has ended
Ended(names) == cpc = "idle" /\ cop.name \in names

\* C20: list_connections, get_connection and delete_connection never raise;
\* when the collaborator is unreachable or answers with another status than
\* 200 they return the empty list, None and False; delete_connection returns
\* True only for a request the collaborator received and answered with 200.
C20_ReadsDegrade ==
    /\ Ended({"list_connections", "get_connection", "delete_connection"})
          => ~cout.raised
    /\ (Ended({"list_connections"}) /\ Failed(cwire)) => cout.value = {}
    /\ (Ended({"get_connection"}) /\ Failed(cwire)) => cout.value = None
    /\ (Ended({"delete_connection"}) /\ Failed(cwire)) => cout.value = FALSE
    /\ (Ended({"delete_connection"}) /\ cout.value)
          => /\ ~Failed(cwire)
             /\ Last(agentLog) = creq
             /\ creq.method = "DELETE"
             /\ \A r \in agentConns : r.connection_id # cop.connection_id

\* the collaborator acknowledged a deletion, and a later listing that could
\* not reach it came back empty
C20_Witness ==
    /\ Ended({"list_connections"})
    /\ cwire = Unreachable
    /\ cout.value = {}
    /\ Len(agentLog) = 1
    /\ agentLog[1].method = "DELETE"
    /\ agentConns = {}

(* ------------------------------ C21 ----------------------------------- *)
WriteEnded == Ended({"receive_invitation", "accept_invitation"}) /\ creq # NoRequest

\* C21: receive_invitation and accept_invitation raise when the collaborator
\* cannot be reached or answers with a status other than 200, and the
\* exception raised for such an answer carries the body of the answer; they
\* return a record, the body of the answer, only for an answer with status
\* 200.
C21_WritesRaise ==
    WriteEnded =>
        IF cwire.kind = "response" /\ cwire.status = 200
        THEN cout = Value(cwire.body)
        ELSE /\ cout.raised
             /\ cwire.kind = "response" =>
                    /\ "message" \in DOMAIN cout
                    /\ cout.message[2] = cwire.body

C21_Witness ==
    /\ WriteEnded
    /\ cop.name = "accept_invitation"
    /\ cwire.kind = "response"
    /\ cwire.status = 404
    /\ cout.raised
    /\ cout.message[2] = "not found"
    /\ \E r \in agentConns : r.state = "abandoned"

(* ------------------------------ C22 ----------------------------------- *)
\* the records a finished call handed to its caller
Returned ==
    IF cpc # "idle" \/ cop = NoCall \/ cout.raised THEN {}
    ELSE IF cop.name = "list_connections" THEN cout.value
    ELSE IF cop.name = "delete_connection" \/ cout.value = None THEN {}
    ELSE {cout.value}

\* C22: a record the service returns has a state of ConnectionState; a
\* record whose state the collaborator reports outside ConnectionState is
\* not passed on to the caller.
C22_UnknownStateNotPassedOn ==
    \A r \in Returned : r.state \in ConnectionState

(* ------------------------------ C23 ----------------------------------- *)
\* the store holds a projection of this connection with this state
StoreHolds(connection_id, state) ==
    \E r \in rows : /\ "connection_id" \in DOMAIN r
                    /\ r.connection_id = connection_id
                    /\ r.state = state

\* C23: when POST /connections has answered with the record that
\* receive_invitation returned, the handling of that request has called the
\* Store and the Store holds a projection of the connection with the state
\* the collaborator reported.
C23_ProjectionPersisted ==
    (cpc = "idle" /\ cop.name = "receive_invitation" /\ eresp.status = 201)
        => /\ \E i \in 1..Len(served) : /\ served[i].seq = calls
                                         /\ served[i].service = "db_service"
           /\ StoreHolds(eresp.body.connection_id, eresp.body.state)

(* ------------------------------ C28 ----------------------------------- *)
\* C28: a request to an endpoint behind get_current_user whose bearer token
\* fails verify_token (no token at all, wrongly signed, or expired) is
\* answered 401 at once: no service is called for it, nothing is sent to the
\* collaborator and the store is left alone. Whatever the collaborator
\* receives, it receives for a request whose token verify_token accepted.
C28_FailedTokenTouchesNothing ==
    [][/\ (calls' # calls /\ verify_token(bearer', clock).payload = None)
          => /\ eresp' = Unauthenticated
             /\ eresp'.status = 401
             /\ served' = served
             /\ cpc' = "idle"
             /\ creq' = NoRequest
             /\ agentLog' = agentLog
             /\ agentConns' = agentConns
             /\ <<rows, nextId, idleStore>>' = <<rows, nextId, idleStore>>
       /\ (agentLog' # agentLog \/ served' # served)
          => verify_token(bearer', clock).payload # None
      ]_vars

\* two requests with failing tokens have been refused, the second one a
\* DELETE of a connection the collaborator holds with an expired token; no
\* service was called and the collaborator has received nothing
C28_Witness ==
    /\ calls = 2
    /\ cpc = "idle"
    /\ cop.name = "delete_connection"
    /\ verify_token(bearer, clock).logged = "Token has expired"
    /\ eresp = Unauthenticated
    /\ agentLog = <<>>
    /\ served = <<>>
    /\ \E r \in agentConns : r.connection_id = cop.connection_id

(* ------------------------------ C29 ----------------------------------- *)
\* the user whose token the request in hand carries
CurrentUserId == get_current_user(bearer, clock).user_data.user_id

\* C29: a connection received through one user's request is not in what
\* GET /connections and GET /connections/{id} answer to another user, and
\* DELETE /connections/{id} of another user does not delete it.
C29_ConnectionsIsolated ==
    \A x \in received :
        (/\ cpc = "idle"
         /\ eresp.status \in {200, 204}
         /\ CurrentUserId # x.user_id)
        => /\ cop.name = "get_connection"
                => eresp.body.connection_id # x.connection_id
           /\ cop.name = "list_connections"
                => \A r \in eresp.body.connections :
                       r.connection_id # x.connection_id
           /\ cop.name = "delete_connection"
                => cop.connection_id # x.connection_id

(* ------------------------------ C25 ----------------------------------- *)
BooleanOps == {"update_user_did", "update_user_email", "update_user_password",
               "delete_user"}

\* C25: update_user_did, update_user_email, update_user_password and
\* delete_user hold true as their return value only when their statement
\* found a row with the given id to update or delete; for an id that no row
\* has they do not return true.
C25_TrueOnlyForExistingRow ==
    \A t \in Tasks :
        (/\ pc[t] = "commit"
         /\ op[t].name \in BooleanOps
         /\ result[t] = TRUE)
        => pending[t].del # {}

(* ------------------------------ C26 ----------------------------------- *)
\* the rows with this username whose stored hash this password verifies
\* against
Verified(u, p) ==
    {r \in rows : r.username = u /\ verify_password(p, r.hashed_password).value}

\* C26: login answers with a token, and a token is issued, only when a row
\* with the given username exists, the given password verifies against its
\* stored hash and the row is active; the token is then that row's. Login
\* answers 403 only when the password has verified against the row, which is
\* not active.
C26_LoginIssuesOnlyWhenAllHold ==
    [][\A k \in Tasks :
         LoginStep(k) =>
            LET ok == Verified(areq'[k].username, areq'[k].password)
            IN /\ (resp'[k].status = 200 \/ issued' # issued)
                    => /\ \E r \in ok : /\ r.is_active
                                        /\ resp'[k].status = 200
                                        /\ resp'[k].access_token.payload.user_id = r.id
                                        /\ issued' = issued \cup
                                             {[user_id |-> r.id, username |-> r.username,
                                               token |-> resp'[k].access_token,
                                               via |-> "login"]}
               /\ resp'[k].status = 403
                    => \E r \in ok : ~r.is_active
               /\ resp'[k].status \in {200, 401, 403}
      ]_vars

\* a login with the right password for a row that is not active was
\* answered 403, and no token was issued
C26_Witness ==
    \E k \in Tasks :
        /\ Answered(k, "login", 403)
        /\ \E r \in Verified(areq[k].username, areq[k].password) : ~r.is_active
        /\ issued = {}

(* ------------------------------ C30 ----------------------------------- *)
\* C30: a registration that is refused, because the username or the email
\* is taken or because the store failed, changes nothing: the rows are as
\* before, no token is issued, and the collaborator holds no DID it did not
\* hold before.
C30_RejectedLeavesNothing ==
    [][\A k \in Tasks :
         (RegisterEndStep(k) /\ resp'[k].status # 201)
         => /\ rows' = rows
            /\ issued' = issued
            /\ agentDids' = agentDids
      ]_vars

(* ------------------------------ C24 ----------------------------------- *)
\* C24: a task whose request to the collaborator is in flight holds no
\* pooled connection, and a task that holds a pooled connection has no
\* request to the collaborator in flight: register's checkout begins after
\* the collaborator's answer and ends before the handler goes on.
C24_NoCheckoutAcrossCollaboratorCall ==
    \A t \in Tasks :
        /\ pc[t] = "create_did" => (~conn[t] /\ ~Has(trace[t], "getconn"))
        /\ conn[t] => pc[t] \in {"execute", "commit", "rollback", "putconn"}

\* one register awaits the collaborator while another holds its connection
C24_Witness ==
    \E t, u \in Tasks :
        /\ pc[t] = "create_did"
        /\ ~conn[t]
        /\ conn[u]
        /\ op[u].name = "create_user"
        /\ poolUsed = 1

(* ------------------------------ C27 ----------------------------------- *)
\* the step ends the create_user call of task t
CreateEnds(t) == pc[t] # "done" /\ pc'[t] = "done" /\ op[t].name = "create_user"

SameKey(r, c) == r.username = c.username \/ r.email = c.email

\* C27: of the create_user calls that run at the same time with one
\* username or one email, at most one returns a user: when a call returns,
\* the row it returns is the only row with its username and the only row
\* with its email, so a call that ends while another call's row has its
\* username or its email does not return; a call whose statement ran into
\* such a row ends with the duplicate error, and the row is there. No two
\* rows ever share a username or an email.
C27_OneOfConcurrentCreatesWins ==
    [][/\ \A t \in Tasks :
            CreateEnds(t) =>
               /\ outcome'[t].kind = "return" =>
                     /\ {r.id : r \in {x \in rows' : SameKey(x, op[t])}}
                          = {outcome'[t].value.id}
                     /\ outcome'[t].value.username = op[t].username
                     /\ outcome'[t].value.email = op[t].email
               /\ exc[t] = "IntegrityError" =>
                     /\ outcome'[t] = [kind |-> "raise", exc |-> "ValueError"]
                     /\ \E r \in rows' : SameKey(r, op[t])
       /\ \A r1, r2 \in rows' :
            (r1.username = r2.username \/ r1.email = r2.email) => r1.id = r2.id
      ]_vars

\* two calls with one username, started on an empty table, overlapped: one
\* has committed its row and not yet returned, the other has ended with the
\* duplicate error
C27_Witness ==
    \E t, u \in Tasks :
        /\ pc[t] = "done"
        /\ op[t].name = "create_user"
        /\ outcome[t] = [kind |-> "raise", exc |-> "ValueError"]
        /\ pc[u] = "putconn"
        /\ op[u].name = "create_user"
        /\ op[u].username = op[t].username
        /\ Has(trace[u], "commit")
        /\ nextId = 3
        /\ Cardinality(rows) = 1
====
